---- MODULE Spec2Model ----
(***************************************************************************)
(* State-machine model of the LeanVSCode extension: the registry of open   *)
(* projects (Projects), the QCAlgorithmProject constructor and its         *)
(* create / download / re-hydrate chains, the cloud save path, the         *)
(* CredentialManager prompt chain and the LeanApi request wrapper.         *)
(*                                                                         *)
(* Strings that the code takes apart (project names, quick-pick labels,    *)
(* paths) are sequences: a name is a sequence of one-character strings, a  *)
(* path is a sequence of path components.  undefined is the value None.    *)
(***************************************************************************)
EXTENDS Integers, Sequences, FiniteSets, TLC

None == "none"

----------------------------------------------------------------------------
(* Bounds of the model *)

\* user commands (create, download, save, close, delete) in one run
MaxCommands == 3
\* bindings in the registry
MaxProjects == 2
\* CredentialManager objects constructed in one session
MaxManagers == 3
\* directory levels between a project directory and a file below it
MaxDepth == 2
\* characters in a project name typed into the input box
MaxNameLen == 2
\* projects the server holds when the editor starts
MaxRemotes == 3
\* seconds the wall clock advances in a run
MaxClock == 3

----------------------------------------------------------------------------
(* Characters, names, languages *)

Letters ==
    {"a","b","c","d","e","f","g","h","i","j","k","l","m","n","o","p","q","r",
     "s","t","u","v","w","x","y","z",
     "A","B","C","D","E","F","G","H","I","J","K","L","M","N","O","P","Q","R",
     "S","T","U","V","W","X","Y","Z"}

Digits == {"0","1","2","3","4","5","6","7","8","9"}

\* the character class [a-zA-Z0-9_ .-] that normalizeProjectName keeps
AllowedChars == Letters \cup Digits \cup {"_", " ", ".", "-"}

\* a name that keeps all its characters
normalizeNothing(projectName) == projectName

normalizeProjectName(projectName) ==
    SelectSeq(projectName, LAMBDA c : c \in AllowedChars)

Py == <<"P", "y">>
CSharp == <<"C", "#">>
FSharp == <<"F", "#">>
Language == {Py, CSharp, FSharp}

\* project names the user types or the server holds
ProjectNames == { <<"a">>, <<"a", "!">>, <<"!">> }

\* names typed into the input box of the Create command: every non-empty
\* string of at most MaxNameLen of these characters
NameChars == {"a", "-", "!", "/"}

TypedNames == UNION {[1..n -> NameChars] : n \in 1..MaxNameLen}

\* languages the user picks in the model's runs
PickedLanguages == {Py}

\* file names of the flat per-project namespace, in directory-listing order
MainPy == <<"m">>
UtilPy == <<"u">>
FileOrder == <<MainPy, UtilPy>>
Contents == {"A", "B"}

----------------------------------------------------------------------------
(* Paths *)

\* vscode.workspace.workspaceFolders[0].uri.fsPath
WorkspaceRoot == << <<"w">> >>

\* `${dir}${path.sep}${name}`
JoinPath(dir, name) == Append(dir, name)

\* doc.fileName.split(path.sep) without its last element, joined again
ParentDir(filePath) ==
    IF Len(filePath) = 0 THEN <<>> ELSE SubSeq(filePath, 1, Len(filePath) - 1)

\* path.basename
BaseName(filePath) == filePath[Len(filePath)]

\* `${i}`: the decimal digits of a number
DigitChars == <<"0", "1", "2", "3", "4", "5", "6", "7", "8", "9">>

RECURSIVE Decimal(_)
Decimal(i) ==
    IF i < 10 THEN << DigitChars[i + 1] >>
    ELSE Decimal(i \div 10) \o << DigitChars[(i % 10) + 1] >>

\* `${projectPath}_${i}`
Suffixed(projectPath, i) ==
    JoinPath(ParentDir(projectPath),
             BaseName(projectPath) \o <<"_">> \o Decimal(i))

\* the number of suffixes the earlier constructor tried (i > 20)
MaxTries == 20

IsPrefix(p, q) == Len(p) <= Len(q) /\ SubSeq(q, 1, Len(p)) = p

----------------------------------------------------------------------------
(* State *)

VARIABLES
    cfg,            \* quantconnect.* booleans of the workspace configuration
    cfgW, cfgG,     \* apiKey / userId in the Workspace and the Global settings
    cfgEvents,      \* onDidChangeConfiguration events not yet delivered
    managers,       \* every CredentialManager constructed in this session
    CredManager,    \* index in managers of the exported CredManager (0: none)
    dirs, disk,     \* the local filesystem: directories, file path -> content
    remoteProjects, \* the server's project list
    remoteFiles,    \* the server's files: projectId -> sequence of files
    Projects,       \* the registry of open projects
    persisted,      \* globalState 'quantconnectProjects'
    active,         \* "off", "on", or "failed" (activate threw)
    commands,       \* number of user commands so far
    net,            \* remote requests in flight
    prompts,        \* information-message prompts awaiting the user
    picker,         \* the multi-select quick pick of the Download command
    timers,         \* setTimeout callbacks not yet run
    activeEditor,   \* vscode.window.activeTextEditor
    last,           \* what the last handler showed, threw and returned
    clock,          \* the wall clock, in seconds since the Unix epoch
    wire            \* the headers of the requests sent so far in the run

vars == <<cfg, cfgW, cfgG, cfgEvents, managers, CredManager, dirs, disk,
          remoteProjects, remoteFiles, Projects, persisted, active, commands,
          net, prompts, picker, timers, activeEditor, last, clock, wire>>

credVars == <<cfgW, cfgG, cfgEvents, managers, CredManager>>
fsVars == <<dirs, disk>>
remoteVars == <<remoteProjects, remoteFiles>>
uiVars == <<prompts, picker, timers, activeEditor>>

\* a user command: one more of the run's MaxCommands
UserCommand ==
    /\ commands < MaxCommands
    /\ commands' = commands + 1

\* the observable outcome of one handler
Shown(op, outcome, errs, infos, unhandled, result) ==
    [op |-> op, outcome |-> outcome, errs |-> errs, infos |-> infos,
     unhandled |-> unhandled, result |-> result]

\* a request in flight: the call, the binding and file it belongs to, and the
\* arguments it was issued with
Request(kind, b, f, pid, content, ow, batch) ==
    [kind |-> kind, b |-> b, f |-> f, pid |-> pid, content |-> content,
     ow |-> ow, batch |-> batch]

Prompt(kind, b, f, batch) == [kind |-> kind, b |-> b, f |-> f, batch |-> batch]

\* the three ways a remote call ends: a success envelope, an envelope with
\* success = false (no payload), or a transport failure, where
\* LeanApi.request shows an error and resolves with undefined
Outcomes == {"ok", "fail", "transport"}

----------------------------------------------------------------------------
(* Filesystem *)

\* fs.readdirSync(dir): the files of dir, in listing order
FilesIn(dsk, dir) ==
    SelectSeq(FileOrder, LAMBDA n : JoinPath(dir, n) \in DOMAIN dsk)

SubDirsIn(ds, dir) == {d \in ds : Len(d) > 0 /\ ParentDir(d) = dir}

\* fs.readdirSync(dir).length > 0
DirHasEntries(ds, dsk, dir) ==
    Len(FilesIn(dsk, dir)) > 0 \/ SubDirsIn(ds, dir) # {}

\* fs.writeFileSync
WriteFile(dsk, p, c) ==
    [q \in DOMAIN dsk \cup {p} |-> IF q = p THEN c ELSE dsk[q]]

----------------------------------------------------------------------------
(* Credentials: CredentialManager and the LeanApi handle it constructs *)

\* values the user types into an input box; None is a dismissed box
Keys == {"k"}
UserIds == {"u"}

\* workspaceConfig.get(key): the Workspace value overrides the Global one
ConfigGet(w, g, key) == IF w[key] # None THEN w[key] ELSE g[key]

NoApi == [defined |-> FALSE, apiKey |-> None, userId |-> None]

\* new LeanApi(apiKey, userId): the handle keeps what it is given; an
\* undefined argument only shows an error message
LeanApi(apiKey, userId) ==
    [defined |-> TRUE, apiKey |-> apiKey, userId |-> userId]

LeanApiErrors(apiKey, userId) ==
    (IF apiKey = None THEN 1 ELSE 0) + (IF userId = None THEN 1 ELSE 0)

\* new CredentialManager(): with both credentials configured the client is
\* initialized at once, otherwise the prompt chain starts at the API key
NewCredentialManager(w, g) ==
    LET apiKey == ConfigGet(w, g, "apiKey")
        userId == ConfigGet(w, g, "userId")
    IN  IF apiKey = None \/ userId = None
        THEN [apiKey |-> apiKey, userId |-> userId, api |-> NoApi,
              pc |-> "promptApiKey"]
        ELSE [apiKey |-> apiKey, userId |-> userId,
              api |-> LeanApi(apiKey, userId), pc |-> "ready"]

\* credManager.api as a binding stores it: the index of the manager whose
\* LeanApi object it is, 0 when that manager has no client yet
CurrentApi ==
    IF CredManager = 0 THEN 0
    ELSE IF managers[CredManager].api.defined THEN CredManager ELSE 0

\* workspaceConfig.update(key, value, target) on both targets: the events it
\* raises, one for each settings file whose stored value changes
\* (none while no onDidChangeConfiguration listener is registered)
UpdateEvents(w, g, key, value) ==
    IF active # "on" THEN <<>>
    ELSE (IF w[key] # value THEN <<key>> ELSE <<>>) \o
         (IF g[key] # value THEN <<key>> ELSE <<>>)

\* initializeApi() ends with this.api.authenticated(): one more request
AuthRequest(i) == Request("auth", i, 0, 0, None, FALSE, FALSE)

\* crypto.createHash('sha256').update(`${apiKey}:${timestamp}`): the digest
\* stands for its input
Sha256(apiKey, timestamp) == [apiKey |-> apiKey, timestamp |-> timestamp]

\* Buffer.from(`${userId}:${hash}`).toString('base64')
Base64(userId, hash) == [userId |-> userId, hash |-> hash]

\* LeanApi.getTimestamp(): Math.floor(new Date().getTime() / 1000)
getTimestamp(now) == now

\* the second the run starts in
FirstSecond == 1

\* a request that signs with the time of the run's first request
requestStale(api, now) ==
    [Authorization |-> Base64(api.userId, Sha256(api.apiKey, FirstSecond)),
     Timestamp |-> FirstSecond]

\* createHash() returns [hash, timestamp]
createHash(api, now) ==
    LET timestamp == getTimestamp(now)
    IN  << Sha256(api.apiKey, timestamp), timestamp >>

\* request(): the Authorization and Timestamp headers of a request that the
\* client api sends at the second now
request(api, now) ==
    LET authHashTimestamp == createHash(api, now)
    IN  [Authorization |-> Base64(api.userId, authHashTimestamp[1]),
         Timestamp |-> authHashTimestamp[2]]

\* the LeanApi object a request of the step is sent through: the manager's
\* own for authenticated(), credManager.api for the Download command's
\* listing, the binding's for everything else
ApiOf(r) ==
    IF r.kind = "auth" THEN managers'[r.b].api
    ELSE IF r.kind = "pick" THEN managers'[CredManager'].api
    ELSE managers'[Projects'[r.b].api].api

\* every remote call of a handler goes through request() when it is made
Transmit ==
    /\ wire' = wire \cup {request(ApiOf(r), clock) : r \in net' \ net}
    /\ clock' = clock

\* a second passes
Tick ==
    /\ clock < FirstSecond + MaxClock
    /\ clock' = clock + 1
    /\ UNCHANGED <<cfg, cfgW, cfgG, cfgEvents, managers, CredManager, dirs,
                   disk, remoteProjects, remoteFiles, Projects, persisted,
                   active, commands, net, prompts, picker, timers,
                   activeEditor, last, wire>>

\* promptForApiKey().then(...): the user's answer is stored and written to
\* the configuration, undefined included, and the chain goes on to the user id
AnswerApiKey(i, apiKey) ==
    /\ i \in DOMAIN managers
    /\ managers[i].pc = "promptApiKey"
    /\ managers' = [managers EXCEPT ![i].apiKey = apiKey,
                                    ![i].pc = "promptUserId"]
    /\ cfgW' = [cfgW EXCEPT !.apiKey = apiKey]
    /\ cfgG' = [cfgG EXCEPT !.apiKey = apiKey]
    /\ cfgEvents' = cfgEvents \o UpdateEvents(cfgW, cfgG, "apiKey", apiKey)
    /\ last' = Shown("promptForApiKey",
                     IF apiKey = None THEN "dismissed" ELSE "answered",
                     IF apiKey = None THEN 1 ELSE 0, 0, FALSE, i)
    /\ UNCHANGED <<cfg, CredManager, dirs, disk, remoteProjects, remoteFiles,
                   Projects, persisted, active, commands, net, prompts,
                   picker, timers, activeEditor>>
    /\ Transmit

\* promptForUserId().then(...).then(() => this.initializeApi())
AnswerUserId(i, userId) ==
    /\ i \in DOMAIN managers
    /\ managers[i].pc = "promptUserId"
    /\ managers' = [managers EXCEPT
                      ![i].userId = userId,
                      ![i].api = LeanApi(managers[i].apiKey, userId),
                      ![i].pc = "ready"]
    /\ cfgW' = [cfgW EXCEPT !.userId = userId]
    /\ cfgG' = [cfgG EXCEPT !.userId = userId]
    /\ cfgEvents' = cfgEvents \o UpdateEvents(cfgW, cfgG, "userId", userId)
    /\ last' = Shown("promptForUserId",
                     IF userId = None THEN "dismissed" ELSE "answered",
                     (IF userId = None THEN 1 ELSE 0)
                        + LeanApiErrors(managers[i].apiKey, userId),
                     0, FALSE, i)
    /\ net' = net \cup {AuthRequest(i)}
    /\ UNCHANGED <<cfg, CredManager, dirs, disk, remoteProjects, remoteFiles,
                   Projects, persisted, active, commands, prompts,
                   picker, timers, activeEditor>>
    /\ Transmit

\* authenticated().then(...): a refusal is reported; after a transport
\* failure request() resolves with undefined and response.success throws
\* inside authenticated(), a rejection nothing catches
AuthResponse(r, outcome) ==
    /\ r \in net
    /\ r.kind = "auth"
    /\ outcome \in Outcomes
    /\ net' = net \ {r}
    /\ last' = Shown("authenticated", outcome,
                     IF outcome = "ok" THEN 0 ELSE 1, 0,
                     outcome = "transport", r.b)
    /\ UNCHANGED <<cfg, cfgW, cfgG, cfgEvents, managers, CredManager, dirs,
                   disk, remoteProjects, remoteFiles, Projects, persisted,
                   active, commands, prompts, picker, timers, activeEditor>>
    /\ Transmit

\* the bindings whose api is undefined make the handler's loop throw
ApiOfAllDefined(ps) == \A b \in DOMAIN ps : ps[b].api # 0

\* project.api.apiKey = CredManager.apiKey; project.api.userId = ... for every
\* binding reached before the loop throws: the LeanApi objects are shared
RefreshApis(ms, ps, m) ==
    LET reached(i) ==
            \E b \in DOMAIN ps :
                /\ ps[b].api = i
                /\ \A c \in 1..(b - 1) : ps[c].api # 0
    IN  [i \in DOMAIN ms |->
            IF reached(i)
            THEN [ms[i] EXCEPT !.api.apiKey = m.apiKey, !.api.userId = m.userId]
            ELSE ms[i]]

\* onConfigChange: a change of apiKey or userId replaces CredManager by a new
\* CredentialManager and copies its credentials into every binding's client
OnConfigChange ==
    /\ active = "on"
    /\ Len(cfgEvents) > 0
    /\ Len(managers) < MaxManagers
    /\ LET m == NewCredentialManager(cfgW, cfgG)
       IN  /\ managers' = Append(RefreshApis(managers, Projects, m), m)
           /\ CredManager' = Len(managers) + 1
           /\ net' = IF m.pc = "ready"
                     THEN net \cup {AuthRequest(Len(managers) + 1)} ELSE net
           /\ last' = Shown("onConfigChange", m.pc, 0, 0,
                            ~ApiOfAllDefined(Projects), Len(managers) + 1)
    /\ cfgEvents' = Tail(cfgEvents)
    /\ UNCHANGED <<cfg, cfgW, cfgG, dirs, disk, remoteProjects, remoteFiles,
                   Projects, persisted, active, commands, prompts,
                   picker, timers, activeEditor>>
    /\ Transmit

----------------------------------------------------------------------------
(* The remote service *)

Times == 1..2

\* the server stamps what it creates with its current time, the latest
ServerNow == CHOOSE t \in Times : \A u \in Times : u <= t

RemoteProject(id, name, language, modified) ==
    [projectId |-> id, name |-> name, language |-> language,
     modified |-> modified]

RemoteFile(name, content) == [name |-> name, content |-> content]

\* files the server gives a project it has just created
TemplateFiles == << RemoteFile(MainPy, "A") >>

\* the server's projects when the editor starts, as other clients left them:
\* none; two languages under one name and a name without a legal character;
\* two projects of one name modified at the same time
RemotesMixed ==
    << RemoteProject(1, <<"a">>, Py, 1), RemoteProject(2, <<"a">>, CSharp, 2),
       RemoteProject(3, <<"!">>, Py, 1) >>

RemotesTwins ==
    << RemoteProject(1, <<"a">>, Py, 2), RemoteProject(2, <<"a">>, Py, 2),
       RemoteProject(3, <<"b">>, Py, 1) >>

\* every list of at most MaxRemotes projects named a or b, numbered by the
\* server in list order
RemoteNames == { <<"a">>, <<"b">> }

RemoteLists ==
    UNION {{[k \in 1..n |-> RemoteProject(k, names[k], Py, times[k])] :
                names \in [1..n -> RemoteNames], times \in [1..n -> Times]} :
           n \in 0..MaxRemotes}

InitialRemotes == { <<>>, RemotesMixed, RemotesTwins }

InitialFiles(id) ==
    IF id = 1 THEN << RemoteFile(MainPy, "A"), RemoteFile(UtilPy, "A") >>
    ELSE << RemoteFile(MainPy, "B") >>

\* files/update on the server: the project and the file must exist
ServerHasFile(pid, name) ==
    /\ pid \in DOMAIN remoteFiles
    /\ \E k \in DOMAIN remoteFiles[pid] : remoteFiles[pid][k].name = name

ServerWrite(files, name, content) ==
    [k \in DOMAIN files |->
        IF files[k].name = name THEN RemoteFile(name, content) ELSE files[k]]

\* projects/delete issued by another client of the same account (the web
\* editor): a project that no binding and no request of this editor refers
\* to by id leaves the server's list
OtherClientDeletes(id) ==
    /\ \E k \in DOMAIN remoteProjects : remoteProjects[k].projectId = id
    /\ \A b \in DOMAIN Projects : Projects[b].projectId # id
    /\ \A r \in net : r.pid # id
    /\ remoteProjects' = SelectSeq(remoteProjects, LAMBDA p : p.projectId # id)
    /\ UNCHANGED <<cfg, cfgW, cfgG, cfgEvents, managers, CredManager, dirs,
                   disk, remoteFiles, Projects, persisted, active, commands,
                   net, prompts, picker, timers, activeEditor, last>>
    /\ Transmit

----------------------------------------------------------------------------
(* QCProjectFile and QCAlgorithmProject *)

\* new QCProjectFile(filePath, content, synced).  confirmed and acked are
\* history: the content the server last confirmed for this object (delivered
\* by a download or acknowledged by a write), and whether a write of it was
\* ever acknowledged with success
QCProjectFile(filePath, content, synced, confirmed) ==
    [filePath |-> filePath, content |-> content, synced |-> synced,
     confirmed |-> confirmed, acked |-> FALSE]

\* the constructor's projectPath
ProjectPathOf(projectName) ==
    IF cfg.workspaceAsRootPath THEN WorkspaceRoot
    ELSE JoinPath(WorkspaceRoot, normalizeProjectName(projectName))

\* the fields the constructor assigns before it branches.  origin and phase
\* are the position of the binding's promise chain
BindingWith(api, projectName, language, projectId, files, origin, phase) ==
    [api |-> api, files |-> files,
     projectPath |-> ProjectPathOf(projectName),
     projectName |-> projectName, projectLanguage |-> language,
     projectId |-> projectId, origin |-> origin, phase |-> phase]

Binding(projectName, language, projectId, files, origin, phase) ==
    BindingWith(CurrentApi, projectName, language, projectId, files, origin,
                phase)

\* the fromGlobalState branch: every plain file of the directory, unsynced
ScanFiles(dsk, dir) ==
    LET names == FilesIn(dsk, dir)
    IN  [k \in DOMAIN names |->
            QCProjectFile(JoinPath(dir, names[k]), dsk[JoinPath(dir, names[k])],
                          FALSE, None)]

\* what context.globalState keeps of a binding
Snapshot(ps) ==
    [k \in DOMAIN ps |->
        [projectPath |-> ps[k].projectPath, projectName |-> ps[k].projectName,
         projectLanguage |-> ps[k].projectLanguage,
         projectId |-> ps[k].projectId]]

----------------------------------------------------------------------------
(* Scenario A: createOrDownloadProject, Create *)

SetPhase(ps, b, phase) == [ps EXCEPT ![b].phase = phase]

\* The last step of the Create chain, once a name and a language are chosen:
\* Projects.push(new QCAlgorithmProject(..., true, false)), the globalState
\* update and the success message.  The constructor throws on a name that
\* normalizes to nothing (before it touches the disk) and on an undefined
\* client (after mkdirSync); the chain's rejection handler shows the error.
CmdCreate(projectName, language) ==
    /\ active = "on"
    /\ UserCommand
    /\ Len(Projects) < MaxProjects
    /\ projectName \in ProjectNames \cup TypedNames
    /\ language \in PickedLanguages
    /\ IF normalizeProjectName(projectName) = <<>>
       THEN /\ last' = Shown("create", "throw", 1, 0, FALSE, 0)
            /\ UNCHANGED <<dirs, net, Projects, persisted>>
       ELSE /\ dirs' = dirs \cup {ProjectPathOf(projectName)}
            /\ IF CurrentApi = 0
               THEN /\ last' = Shown("create", "throw", 1, 0, FALSE, 0)
                    /\ UNCHANGED <<net, Projects, persisted>>
               ELSE LET binding == Binding(projectName, language, 0, <<>>,
                                           "create", "creating")
                        b == Len(Projects) + 1
                    IN  /\ Projects' = Append(Projects, binding)
                        /\ persisted' = Snapshot(Projects')
                        /\ net' = net \cup
                                {Request("create", b, 0, 0, None, FALSE, FALSE)}
                        /\ last' = Shown("create", "pushed", 0, 1, FALSE, b)
    /\ UNCHANGED <<cfg, cfgW, cfgG, cfgEvents, managers, CredManager, disk,
                   remoteProjects, remoteFiles, active, prompts,
                   picker, timers, activeEditor>>
    /\ Transmit

\* a files/read request issued while this.projectId is still undefined
ReadRequestNoId(b, pid, overwrite) ==
    Request("read", b, 0, 0, None, overwrite, FALSE)

\* downloadProjectFiles(overwrite): one files/read request for this.projectId
ReadRequest(b, pid, overwrite) ==
    Request("read", b, 0, pid, None, overwrite, FALSE)

\* createProject(...).then(id).then(download).catch(show): on success the id
\* of the new project is captured and the download starts; an envelope
\* without projects makes response.projects[0] throw, and the catch shows it
CreateResponse(r, outcome) ==
    /\ r \in net
    /\ r.kind = "create"
    /\ outcome \in Outcomes
    /\ IF outcome = "ok"
       THEN LET id == Len(remoteProjects) + 1
                modified == ServerNow
            IN  /\ remoteProjects' = Append(remoteProjects,
                        RemoteProject(id, Projects[r.b].projectName,
                                      Projects[r.b].projectLanguage, modified))
                /\ remoteFiles' = Append(remoteFiles, TemplateFiles)
                /\ Projects' = [Projects EXCEPT ![r.b].projectId = id,
                                                ![r.b].phase = "downloading"]
                /\ net' = (net \ {r}) \cup {ReadRequest(r.b, id, FALSE)}
                /\ last' = Shown("createProject", outcome, 0, 0, FALSE, r.b)
       ELSE /\ Projects' = SetPhase(Projects, r.b, "createFailed")
            /\ net' = net \ {r}
            /\ last' = Shown("createProject", outcome,
                             IF outcome = "transport" THEN 2 ELSE 1,
                             0, FALSE, r.b)
            /\ UNCHANGED <<remoteProjects, remoteFiles>>
    /\ UNCHANGED <<cfg, cfgW, cfgG, cfgEvents, managers, CredManager, dirs,
                   disk, persisted, active, commands, prompts, picker, timers,
                   activeEditor>>
    /\ Transmit

\* a download that writes every file, whatever is on the disk
RECURSIVE MaterialiseAll(_, _, _)
MaterialiseAll(dsk, files, overwrite) ==
    IF files = <<>> THEN dsk
    ELSE MaterialiseAll(WriteFile(dsk, Head(files).filePath,
                                  Head(files).content),
                        Tail(files), overwrite)

\* projectFile.createFile() / createFileOverwrite() for a list of new files
RECURSIVE MaterialiseFiles(_, _, _)
MaterialiseFiles(dsk, files, overwrite) ==
    IF files = <<>> THEN dsk
    ELSE LET file == Head(files)
             written == IF overwrite \/ file.filePath \notin DOMAIN dsk
                        THEN WriteFile(dsk, file.filePath, file.content)
                        ELSE dsk
         IN  MaterialiseFiles(written, Tail(files), overwrite)

\* new QCProjectFile(`${projectPath}${sep}${file.name}`, file.content, true)
\* for every file of the response
DownloadedFiles(projectPath, files) ==
    [k \in DOMAIN files |->
        QCProjectFile(JoinPath(projectPath, files[k].name), files[k].content,
                      TRUE, files[k].content)]

\* readProjectFiles(id).then(files).catch(show): every file of the response
\* becomes a QCProjectFile, is written (unless it exists and overwrite is
\* off) and is pushed on this.files; a response without files throws
ReadFilesResponse(r, outcome) ==
    /\ r \in net
    /\ r.kind = "read"
    /\ outcome \in Outcomes
    /\ net' = net \ {r}
    /\ IF outcome = "ok"
       THEN LET new == DownloadedFiles(Projects[r.b].projectPath,
                                       remoteFiles[r.pid])
            IN  /\ disk' = MaterialiseFiles(disk, new, r.ow)
                /\ Projects' = [Projects EXCEPT
                                  ![r.b].files = Projects[r.b].files \o new,
                                  ![r.b].phase = "ready"]
                /\ last' = Shown("readProjectFiles", outcome, 0, 0, FALSE, r.b)
       ELSE /\ Projects' = SetPhase(Projects, r.b, "downloadFailed")
            /\ last' = Shown("readProjectFiles", outcome,
                             IF outcome = "transport" THEN 2 ELSE 1,
                             0, FALSE, r.b)
            /\ UNCHANGED disk
    /\ UNCHANGED <<cfg, cfgW, cfgG, cfgEvents, managers, CredManager, dirs,
                   remoteProjects, remoteFiles, persisted, active, commands,
                   prompts, picker, timers, activeEditor>>
    /\ Transmit

\* a loop that pushes each file before it writes it
PushedBeforeWrite(new, k) == SubSeq(new, 1, k)

\* the files the loop of downloadProjectFiles has written and pushed when the
\* write of file k throws: createFile comes before this.files.push
Pushed(new, k) == SubSeq(new, 1, k - 1)

\* readProjectFiles(id).then(files) when fs.writeFileSync throws for file k
\* of the response (the disk is full, the path is not writable): the loop
\* ends there, the catch shows the error, and the files before k stay
\* written and pushed
ReadFilesPartial(r, k) ==
    /\ r \in net
    /\ r.kind = "read"
    /\ k \in DOMAIN remoteFiles[r.pid]
    /\ LET new == DownloadedFiles(Projects[r.b].projectPath, remoteFiles[r.pid])
       IN  /\ r.ow \/ new[k].filePath \notin DOMAIN disk
           /\ disk' = MaterialiseFiles(disk, SubSeq(new, 1, k - 1), r.ow)
           /\ Projects' = [Projects EXCEPT
                             ![r.b].files = Projects[r.b].files \o Pushed(new, k),
                             ![r.b].phase = "downloadFailed"]
    /\ net' = net \ {r}
    /\ last' = Shown("readProjectFiles", "writeFailed", 1, 0, FALSE, r.b)
    /\ UNCHANGED <<cfg, cfgW, cfgG, cfgEvents, managers, CredManager, dirs,
                   remoteProjects, remoteFiles, persisted, active, commands,
                   prompts, picker, timers, activeEditor>>
    /\ Transmit

----------------------------------------------------------------------------
(* Scenario B: createOrDownloadProject, Download *)

\* `${project.language.toString()} - ${project.name}`
PickLabel(project) == project.language \o <<" ", "-", " ">> \o project.name

\* selected.substring(5) and selected.substring(0, 2)
LabelName(label) == SubSeq(label, 6, Len(label))
LabelLanguage(label) == SubSeq(label, 1, 2)

NoPicker == [open |-> FALSE, items |-> <<>>]

\* credManager.api.listProjects() of the Download branch
CmdDownload ==
    /\ active = "on"
    /\ UserCommand
    /\ ~picker.open
    /\ \A r \in net : r.kind # "pick"
    /\ IF CurrentApi = 0
       THEN /\ last' = Shown("download", "throw", 1, 0, FALSE, 0)
            /\ UNCHANGED net
       ELSE /\ net' = net \cup {Request("pick", 0, 0, 0, None, FALSE, FALSE)}
            /\ last' = Shown("download", "listing", 0, 0, FALSE, 0)
    /\ UNCHANGED <<cfg, cfgW, cfgG, cfgEvents, managers, CredManager, dirs,
                   disk, remoteProjects, remoteFiles, Projects, persisted,
                   active, prompts, picker, timers, activeEditor>>
    /\ Transmit

\* .then(response => ...): an unsuccessful envelope is reported; a success
\* opens the multi-select quick pick over the labels of all projects
DownloadListResponse(r, outcome) ==
    /\ r \in net
    /\ r.kind = "pick"
    /\ outcome \in Outcomes
    /\ net' = net \ {r}
    /\ IF outcome = "ok"
       THEN /\ picker' = [open |-> TRUE,
                          items |-> [k \in DOMAIN remoteProjects |->
                                        PickLabel(remoteProjects[k])]]
            /\ last' = Shown("listProjects", outcome, 0, 0, FALSE, 0)
       ELSE /\ last' = Shown("listProjects", outcome,
                             IF outcome = "transport" THEN 2 ELSE 1,
                             0, FALSE, 0)
            /\ UNCHANGED picker
    /\ UNCHANGED <<cfg, cfgW, cfgG, cfgEvents, managers, CredManager, dirs,
                   disk, remoteProjects, remoteFiles, Projects, persisted,
                   active, commands, prompts, timers, activeEditor>>
    /\ Transmit

Min(S) == CHOOSE x \in S : \A y \in S : x <= y

\* .then(selection => ...): the loop returns after its first iteration, so
\* only the first selected label becomes a binding.  This callback's promise
\* is not returned to the outer chain: an exception of the constructor here
\* is caught by nothing
PickFirst(label) ==
    LET projectName == LabelName(label)
        language == LabelLanguage(label)
    IN  IF normalizeProjectName(projectName) = <<>>
        THEN /\ last' = Shown("pick", "throw", 0, 0, TRUE, 0)
             /\ UNCHANGED <<dirs, net, Projects, persisted>>
        ELSE /\ dirs' = dirs \cup {ProjectPathOf(projectName)}
             /\ IF CurrentApi = 0
                THEN /\ last' = Shown("pick", "throw", 0, 0, TRUE, 0)
                     /\ UNCHANGED <<net, Projects, persisted>>
                ELSE LET binding == Binding(projectName, language, 0, <<>>,
                                            "download", "resolving")
                         b == Len(Projects) + 1
                     IN  /\ Projects' = Append(Projects, binding)
                         /\ persisted' = Snapshot(Projects')
                         /\ net' = net \cup
                                {Request("list", b, 0, 0, None, FALSE, FALSE)}
                         /\ last' = Shown("pick", "pushed", 0, 0, FALSE, b)

\* selected: the set of picked positions, or dismissed
DownloadPick(dismissed, selected) ==
    /\ picker.open
    /\ Len(Projects) < MaxProjects
    /\ selected \subseteq DOMAIN picker.items
    /\ dismissed => selected = {}
    /\ picker' = NoPicker
    /\ IF dismissed \/ selected = {}
       THEN /\ last' = Shown("pick", IF dismissed THEN "dismissed" ELSE "empty",
                             0, 0, FALSE, 0)
            /\ UNCHANGED <<dirs, net, Projects, persisted>>
       ELSE PickFirst(picker.items[Min(selected)])
    /\ UNCHANGED <<cfg, cfgW, cfgG, cfgEvents, managers, CredManager, disk,
                   remoteProjects, remoteFiles, active, commands, prompts,
                   timers, activeEditor>>
    /\ Transmit

\* a reduction that prefers the later of two projects of equal time
RECURSIVE ReduceLatestLast(_, _)
ReduceLatestLast(prev, rest) ==
    IF rest = <<>> THEN prev
    ELSE ReduceLatestLast(IF Head(rest).modified >= prev.modified
                          THEN Head(rest) ELSE prev, Tail(rest))

\* projects.reduce((prev, curr) => curr.modified > prev.modified ? curr : prev)
RECURSIVE ReduceLatest(_, _)
ReduceLatest(prev, rest) ==
    IF rest = <<>> THEN prev
    ELSE ReduceLatest(IF Head(rest).modified > prev.modified
                      THEN Head(rest) ELSE prev, Tail(rest))

\* response.projects.filter(project => project.name === projectName)
NamedProjects(projects, projectName) ==
    SelectSeq(projects, LAMBDA p : p.name = projectName)

\* the project the download branch resolves to; projectId 0 when the filter
\* leaves nothing (project is undefined and the callback throws)
NoProject == RemoteProject(0, <<>>, Py, 0)

ResolveByName(projects, projectName) ==
    LET named == NamedProjects(projects, projectName)
    IN  IF Len(named) > 1 THEN ReduceLatest(Head(named), Tail(named))
        ELSE IF Len(named) = 1 THEN named[1]
        ELSE NoProject

\* listProjects().then(resolve).then(prompt or download).catch(show) of the
\* constructor's download branch
ResolveListResponse(r, outcome) ==
    /\ r \in net
    /\ r.kind = "list"
    /\ outcome \in Outcomes
    /\ LET project == ResolveByName(remoteProjects, Projects[r.b].projectName)
           path == Projects[r.b].projectPath
       IN  IF outcome = "ok" /\ project.projectId # 0
           THEN IF DirHasEntries(dirs, disk, path)
                THEN /\ Projects' = [Projects EXCEPT
                                       ![r.b].projectId = project.projectId,
                                       ![r.b].phase = "prompting"]
                     /\ prompts' = prompts \cup
                                     {Prompt("disposition", r.b, 0, FALSE)}
                     /\ net' = net \ {r}
                     /\ last' = Shown("listProjects", "prompt", 0, 0, FALSE, r.b)
                ELSE /\ Projects' = [Projects EXCEPT
                                       ![r.b].projectId = project.projectId,
                                       ![r.b].phase = "downloading"]
                     /\ net' = (net \ {r}) \cup
                                {ReadRequest(r.b, project.projectId, FALSE)}
                     /\ last' = Shown("listProjects", "ok", 0, 0, FALSE, r.b)
                     /\ UNCHANGED prompts
           ELSE /\ Projects' = SetPhase(Projects, r.b, "resolveFailed")
                /\ net' = net \ {r}
                /\ last' = Shown("listProjects",
                                 IF outcome = "ok" THEN "notFound" ELSE outcome,
                                 IF outcome = "transport" THEN 2 ELSE 1,
                                 0, FALSE, r.b)
                /\ UNCHANGED prompts
    /\ UNCHANGED <<cfg, cfgW, cfgG, cfgEvents, managers, CredManager, dirs,
                   disk, remoteProjects, remoteFiles, persisted, active,
                   commands, picker, timers, activeEditor>>
    /\ Transmit

\* a choice that overwrites unless Skip was clicked
OverwriteUnlessSkip(selection) == selection # "Skip"

\* if (selection === 'Skip' || selection === undefined) downloadProjectFiles()
\* else downloadProjectFiles(true)
OverwriteChosen(selection) == ~(selection = "Skip" \/ selection = None)

\* .then(selection => ...) of the 'Files detected' prompt: Skip or a
\* dismissed prompt downloads without overwriting, anything else overwrites
DispositionAnswer(p, selection) ==
    /\ p \in prompts
    /\ p.kind = "disposition"
    /\ selection \in {"Skip", "Overwrite", None}
    /\ prompts' = prompts \ {p}
    /\ net' = net \cup {ReadRequest(p.b, Projects[p.b].projectId,
                                    OverwriteChosen(selection))}
    /\ Projects' = SetPhase(Projects, p.b, "downloading")
    /\ last' = Shown("disposition", selection, 0, 0, FALSE, p.b)
    /\ UNCHANGED <<cfg, cfgW, cfgG, cfgEvents, managers, CredManager, dirs,
                   disk, remoteProjects, remoteFiles, persisted, active,
                   commands, picker, timers, activeEditor>>
    /\ Transmit

----------------------------------------------------------------------------
(* The open project and the open file *)

NoEditor == [kind |-> "none", fileName |-> <<>>]
Untitled == [kind |-> "untitled", fileName |-> <<>>]
EditorOn(fileName) == [kind |-> "file", fileName |-> fileName]

\* the position in ps of the first binding whose projectPath is dir, 0 if none
RECURSIVE FirstWithPath(_, _, _)
FirstWithPath(ps, dir, k) ==
    IF k > Len(ps) THEN 0
    ELSE IF ps[k].projectPath = dir THEN k
    ELSE FirstWithPath(ps, dir, k + 1)

\* a lookup by directory prefix: the first binding whose projectPath is a
\* prefix of the active document's directory, at any depth
getOpenProjectByPrefix(ps, editor) ==
    IF editor.kind # "file" THEN 0
    ELSE LET dir == ParentDir(editor.fileName)
             hits == {k \in DOMAIN ps : IsPrefix(ps[k].projectPath, dir)}
         IN  IF hits = {} THEN 0
             ELSE CHOOSE k \in hits : \A j \in hits : k <= j

\* getOpenProject(): the first binding whose projectPath equals the active
\* document's path without its last component; 0 is undefined
getOpenProject(ps, editor) ==
    IF editor.kind # "file" THEN 0
    ELSE FirstWithPath(ps, ParentDir(editor.fileName), 1)

RECURSIVE FirstFileAt(_, _, _)
FirstFileAt(files, fileName, k) ==
    IF k > Len(files) THEN 0
    ELSE IF files[k].filePath = fileName THEN k
    ELSE FirstFileAt(files, fileName, k + 1)

\* getOpenFile(project): the first file of the binding whose filePath is the
\* active document's fileName; 0 is undefined
getOpenFile(ps, b, editor) ==
    IF b = 0 \/ editor.kind = "none" THEN 0
    ELSE FirstFileAt(ps[b].files, editor.fileName, 1)

\* the documents the user can have in front when a handler runs
Editors == {NoEditor, Untitled} \cup {EditorOn(fileName) : fileName \in DOMAIN disk}

----------------------------------------------------------------------------
(* The upload path *)

UpdateRequest(ps, b, f, batch) ==
    Request("update", b, f, ps[b].projectId, ps[b].files[f].content,
            FALSE, batch)

\* a save that uploads the content already in memory
ReloadSkipped(ps, b, f, dsk) == ps

\* projectFile.reloadFileFromDisk()
Reload(ps, b, f, dsk) ==
    [ps EXCEPT ![b].files[f].content = dsk[ps[b].files[f].filePath]]

\* a save that leaves out the files whose synced flag is set and whose
\* content on the disk is the content in memory
RECURSIVE SaveFilesUnlessSynced(_, _, _, _, _, _, _)
SaveFilesUnlessSynced(ps, nt, prs, b, fs, dsk, batch) ==
    IF fs = <<>> THEN <<ps, nt, prs, FALSE>>
    ELSE LET f == Head(fs)
             file == ps[b].files[f]
             reloaded == Reload(ps, b, f, dsk)
         IN  IF file.synced /\ file.content = dsk[file.filePath]
             THEN SaveFilesUnlessSynced(ps, nt, prs, b, Tail(fs), dsk, batch)
             ELSE IF cfg.uploadSkipDialog
             THEN SaveFilesUnlessSynced(reloaded,
                        nt \cup {UpdateRequest(reloaded, b, f, batch)},
                        prs, b, Tail(fs), dsk, batch)
             ELSE SaveFilesUnlessSynced(reloaded, nt,
                        prs \cup {Prompt("confirm", b, f, batch)},
                        b, Tail(fs), dsk, batch)

\* saveFileToCloud(projectFile) for each file of fs, in order, against the
\* disk dsk: the content is reloaded; with uploadSkipDialog the write is
\* issued at once (with an undefined client the call throws), otherwise the
\* confirmation prompt opens.  The result is <<Projects, net, prompts, threw>>
RECURSIVE SaveFilesToCloud(_, _, _, _, _, _, _)
SaveFilesToCloud(ps, nt, prs, b, fs, dsk, batch) ==
    IF fs = <<>> THEN <<ps, nt, prs, FALSE>>
    ELSE LET f == Head(fs)
             reloaded == Reload(ps, b, f, dsk)
         IN  IF cfg.uploadSkipDialog
             THEN IF ps[b].api = 0
                  THEN <<reloaded, nt, prs, TRUE>>
                  ELSE SaveFilesToCloud(reloaded,
                            nt \cup {UpdateRequest(reloaded, b, f, batch)},
                            prs, b, Tail(fs), dsk, batch)
             ELSE SaveFilesToCloud(reloaded, nt,
                            prs \cup {Prompt("confirm", b, f, batch)},
                            b, Tail(fs), dsk, batch)

\* saveFileChangesToCloud() against the disk dsk and the active editor
SaveFileChangesToCloud(dsk, editor, op) ==
    LET b == getOpenProject(Projects, editor)
        f == getOpenFile(Projects, b, editor)
    IN  IF b = 0 \/ f = 0
        THEN /\ last' = Shown(op, IF b = 0 THEN "noProject" ELSE "noFile",
                              1, 0, FALSE, 0)
             /\ UNCHANGED <<Projects, net, prompts>>
        ELSE LET res == SaveFilesToCloud(Projects, net, prompts, b, <<f>>,
                                         dsk, FALSE)
             IN  /\ Projects' = res[1]
                 /\ net' = res[2]
                 /\ prompts' = res[3]
                 /\ last' = Shown(op, IF res[4] THEN "throw" ELSE "saving",
                                  0, 0, res[4], b)

\* the command extension.saveFileChangesToCloud, run with editor in front
CmdSaveFile(editor) ==
    /\ active = "on"
    /\ UserCommand
    /\ editor \in Editors
    /\ activeEditor' = editor
    /\ SaveFileChangesToCloud(disk, editor, "saveFile")
    /\ UNCHANGED <<cfg, cfgW, cfgG, cfgEvents, managers, CredManager, dirs,
                   disk, remoteProjects, remoteFiles, persisted, active,
                   picker, timers>>
    /\ Transmit

\* the user saves the document fileName with new content while editor is in
\* front; onFileSave ignores its argument and, when uploadOnSave is set,
\* uploads the active editor's file
SaveDocument(fileName, content, editor) ==
    /\ active = "on"
    /\ UserCommand
    /\ fileName \in DOMAIN disk
    /\ content \in Contents
    /\ content # disk[fileName]
    /\ editor \in Editors
    /\ activeEditor' = editor
    /\ disk' = WriteFile(disk, fileName, content)
    /\ IF cfg.uploadOnSave
       THEN SaveFileChangesToCloud(disk', editor, "onFileSave")
       ELSE /\ last' = Shown("onFileSave", "off", 0, 0, FALSE, 0)
            /\ UNCHANGED <<Projects, net, prompts>>
    /\ UNCHANGED <<cfg, cfgW, cfgG, cfgEvents, managers, CredManager, dirs,
                   remoteProjects, remoteFiles, persisted, active,
                   picker, timers>>
    /\ Transmit

\* saveProjectChangesToCloud(): saveFileToCloud for every file of the open
\* project, each followed by setTimeout(() => {}, 1000)
PacingTimers(b, n) == {[b |-> b, f |-> f] : f \in 1..n}

CmdSaveProject(editor) ==
    /\ active = "on"
    /\ UserCommand
    /\ editor \in Editors
    /\ activeEditor' = editor
    /\ LET b == getOpenProject(Projects, editor)
       IN  IF b = 0
           THEN /\ last' = Shown("saveProject", "noProject", 1, 0, FALSE, 0)
                /\ UNCHANGED <<Projects, net, prompts, timers>>
           ELSE LET n == Len(Projects[b].files)
                    res == SaveFilesToCloud(Projects, net, prompts, b,
                                            [k \in 1..n |-> k], disk, TRUE)
                IN  /\ Projects' = res[1]
                    /\ net' = res[2]
                    /\ prompts' = res[3]
                    /\ timers' = IF res[4] THEN timers
                                 ELSE timers \cup PacingTimers(b, n)
                    /\ last' = Shown("saveProject",
                                     IF res[4] THEN "throw" ELSE "saving",
                                     0, 0, res[4], b)
    /\ UNCHANGED <<cfg, cfgW, cfgG, cfgEvents, managers, CredManager, dirs,
                   disk, remoteProjects, remoteFiles, persisted, active,
                   picker>>
    /\ Transmit

\* the empty callback of a pacing timer runs: its delay has elapsed
TimerFire(t) ==
    /\ t \in timers
    /\ timers' = timers \ {t}
    /\ last' = Shown("timer", "fired", 0, 0, FALSE, t.b)
    /\ UNCHANGED <<cfg, cfgW, cfgG, cfgEvents, managers, CredManager, dirs,
                   disk, remoteProjects, remoteFiles, Projects, persisted,
                   active, commands, net, prompts, picker, activeEditor>>
    /\ Transmit

\* .then(selection => ...) of the 'Are you sure' prompt: only Yes issues the
\* write, with the content the file object holds at that moment; an
\* undefined client throws inside the callback, which nothing catches
ConfirmAnswer(p, selection) ==
    /\ p \in prompts
    /\ p.kind = "confirm"
    /\ selection \in {"Yes", "No", None}
    /\ prompts' = prompts \ {p}
    /\ IF selection = "Yes"
       THEN IF Projects[p.b].api = 0
            THEN /\ last' = Shown("confirm", "throw", 0, 0, TRUE, p.b)
                 /\ UNCHANGED net
            ELSE /\ net' = net \cup {UpdateRequest(Projects, p.b, p.f, p.batch)}
                 /\ last' = Shown("confirm", "Yes", 0, 0, FALSE, p.b)
       ELSE /\ last' = Shown("confirm", selection, 0, 0, FALSE, p.b)
            /\ UNCHANGED net
    /\ UNCHANGED <<cfg, cfgW, cfgG, cfgEvents, managers, CredManager, dirs,
                   disk, remoteProjects, remoteFiles, Projects, persisted,
                   active, commands, picker, timers, activeEditor>>
    /\ Transmit

\* a response callback that clears the flag when the write is refused
AcknowledgedOrCleared(file, outcome, content) ==
    IF outcome = "ok"
    THEN [file EXCEPT !.synced = TRUE, !.confirmed = content, !.acked = TRUE]
    ELSE [file EXCEPT !.synced = FALSE]

\* the file object after the response callback: only response.success sets
\* synced; any other response leaves the object as it is
Acknowledged(file, outcome, content) ==
    IF outcome = "ok"
    THEN [file EXCEPT !.synced = TRUE, !.confirmed = content, !.acked = TRUE]
    ELSE file

\* updateProjectFileContent(...).then(response => ...), which has no catch:
\* success sets synced, an unsuccessful envelope shows the server's errors,
\* and after a transport failure response is undefined, so response.success
\* throws in the callback and the rejection is handled by nothing
UpdateResponse(r, outcome) ==
    /\ r \in net
    /\ r.kind = "update"
    /\ outcome \in Outcomes
    /\ LET name == BaseName(Projects[r.b].files[r.f].filePath)
       IN  /\ outcome = "ok" => ServerHasFile(r.pid, name)
           /\ net' = net \ {r}
           /\ IF outcome = "ok"
              THEN /\ remoteFiles' = [remoteFiles EXCEPT ![r.pid] =
                                        ServerWrite(@, name, r.content)]
                   /\ last' = Shown("updateProjectFileContent", outcome,
                                    0, 1, FALSE, r.b)
              ELSE /\ last' = Shown("updateProjectFileContent", outcome,
                                    1, 0, outcome = "transport", r.b)
                   /\ UNCHANGED remoteFiles
           /\ Projects' = [Projects EXCEPT ![r.b].files[r.f] =
                                Acknowledged(@, outcome, r.content)]
    /\ UNCHANGED <<cfg, cfgW, cfgG, cfgEvents, managers, CredManager, dirs,
                   disk, remoteProjects, persisted, active, commands, prompts,
                   picker, timers, activeEditor>>
    /\ Transmit

----------------------------------------------------------------------------
(* Scenario C: activation, initProjects, deactivation *)

\* initProjects' loop over the persisted records recs.  A record whose
\* projectPath is gone is skipped.  A binding restored without an id calls
\* setProjectIdFromProjectName(), which issues listProjects() and returns
\* false before the response can arrive, so the error is shown and the
\* binding is pushed with its id unset; with an undefined client that call
\* throws and activation ends there.
\* The result is <<Projects, dirs, net, errors shown, threw>>
RECURSIVE InitProjects(_, _, _, _, _, _)
InitProjects(recs, api, ps, ds, nt, errs) ==
    IF recs = <<>> THEN <<ps, ds, nt, errs, FALSE>>
    ELSE LET rec == Head(recs)
             path == ProjectPathOf(rec.projectName)
             project == BindingWith(api, rec.projectName, rec.projectLanguage,
                                    rec.projectId, ScanFiles(disk, path),
                                    "rehydrate", "rehydrated")
             b == Len(ps) + 1
         IN  IF rec.projectPath \notin ds
             THEN InitProjects(Tail(recs), api, ps, ds, nt, errs)
             ELSE IF rec.projectId # 0
             THEN InitProjects(Tail(recs), api, Append(ps, project),
                               ds \cup {path}, nt, errs)
             ELSE IF api = 0
             THEN <<ps, ds \cup {path}, nt, errs, TRUE>>
             ELSE InitProjects(Tail(recs), api,
                        Append(ps, [project EXCEPT !.phase = "listing"]),
                        ds \cup {path},
                        nt \cup {Request("rlist", b, 0, 0, None, FALSE, FALSE)},
                        errs + 1)

\* the extension module is loaded (CredManager = new CredentialManager())
\* and activate() runs: initProjects, then the commands and listeners
Activate ==
    /\ active = "off"
    /\ LET m == NewCredentialManager(cfgW, cfgG)
           api == IF m.api.defined THEN 1 ELSE 0
           auth == IF m.api.defined THEN {AuthRequest(1)} ELSE {}
           res == InitProjects(persisted, api, <<>>, dirs, auth, 0)
       IN  /\ managers' = <<m>>
           /\ CredManager' = 1
           /\ Projects' = res[1]
           /\ dirs' = res[2]
           /\ net' = res[3]
           /\ active' = IF res[5] THEN "failed" ELSE "on"
           /\ last' = Shown("activate", IF res[5] THEN "throw" ELSE m.pc,
                            res[4], 0, res[5], Len(res[1]))
    /\ UNCHANGED <<cfg, cfgW, cfgG, cfgEvents, disk, remoteProjects,
                   remoteFiles, persisted, commands, prompts, picker, timers,
                   activeEditor>>
    /\ Transmit

\* setProjectIdFromProjectName's listProjects().then(...).catch(show): the
\* callback assigns a local variable only (and throws on an empty list)
RehydrateListResponse(r, outcome) ==
    /\ r \in net
    /\ r.kind = "rlist"
    /\ outcome \in Outcomes
    /\ net' = net \ {r}
    /\ IF outcome = "ok" /\ Len(remoteProjects) > 0
       THEN /\ Projects' = SetPhase(Projects, r.b, "listed")
            /\ last' = Shown("setProjectId", outcome, 0, 0, FALSE, r.b)
       ELSE /\ Projects' = SetPhase(Projects, r.b, "listFailed")
            /\ last' = Shown("setProjectId",
                             IF outcome = "ok" THEN "empty" ELSE outcome,
                             IF outcome = "transport" THEN 2 ELSE 1,
                             0, FALSE, r.b)
    /\ UNCHANGED <<cfg, cfgW, cfgG, cfgEvents, managers, CredManager, dirs,
                   disk, remoteProjects, remoteFiles, persisted, active,
                   commands, prompts, picker, timers, activeEditor>>
    /\ Transmit

\* The editor session ends.  deactivate(context) writes Projects to the
\* global state when the host hands it a context; the objects of the session
\* and everything in flight are gone
Deactivate(withContext) ==
    /\ active \in {"on", "failed"}
    /\ UserCommand
    /\ withContext \in BOOLEAN
    /\ persisted' = IF withContext /\ active = "on"
                    THEN Snapshot(Projects) ELSE persisted
    /\ active' = "off"
    /\ Projects' = <<>>
    /\ managers' = <<>>
    /\ CredManager' = 0
    /\ cfgEvents' = <<>>
    /\ net' = {}
    /\ prompts' = {}
    /\ picker' = NoPicker
    /\ timers' = {}
    /\ activeEditor' = NoEditor
    /\ last' = Shown("deactivate", "off", 0, 0, FALSE, 0)
    /\ UNCHANGED <<cfg, cfgW, cfgG, dirs, disk, remoteProjects, remoteFiles>>
    /\ Transmit

\* between sessions the user deletes a project directory
DeleteDir(dir) ==
    /\ active = "off"
    /\ UserCommand
    /\ dir \in dirs \ {WorkspaceRoot}
    /\ dirs' = {d \in dirs : ~IsPrefix(dir, d)}
    /\ disk' = [q \in {q \in DOMAIN disk : ~IsPrefix(dir, q)} |-> disk[q]]
    /\ last' = Shown("deleteDir", "off", 0, 0, FALSE, 0)
    /\ UNCHANGED <<cfg, cfgW, cfgG, cfgEvents, managers, CredManager,
                   remoteProjects, remoteFiles, Projects, persisted, active,
                   net, prompts, picker, timers, activeEditor>>
    /\ Transmit

\* between sessions the user changes quantconnect.workspaceAsRootPath in
\* the settings
EditSettings(workspaceAsRootPath) ==
    /\ active = "off"
    /\ UserCommand
    /\ workspaceAsRootPath \in BOOLEAN
    /\ workspaceAsRootPath # cfg.workspaceAsRootPath
    /\ cfg' = [cfg EXCEPT !.workspaceAsRootPath = workspaceAsRootPath]
    /\ last' = Shown("editSettings", "off", 0, 0, FALSE, 0)
    /\ UNCHANGED <<cfgW, cfgG, cfgEvents, managers, CredManager, dirs, disk,
                   remoteProjects, remoteFiles, Projects, persisted, active,
                   net, prompts, picker, timers, activeEditor>>
    /\ Transmit

----------------------------------------------------------------------------
(* The specification of the reconciler *)

NoCredentials == [apiKey |-> None, userId |-> None]

Init ==
    /\ cfg \in [workspaceAsRootPath : BOOLEAN, uploadSkipDialog : BOOLEAN,
                uploadOnSave : BOOLEAN]
    /\ cfgW = NoCredentials
    /\ cfgG \in {NoCredentials, [apiKey |-> "k", userId |-> "u"]}
    /\ cfgEvents = <<>>
    /\ managers = <<>>
    /\ CredManager = 0
    /\ dirs = {WorkspaceRoot}
    /\ disk = [q \in {} |-> "A"]
    /\ remoteProjects \in InitialRemotes
    /\ remoteFiles = [id \in DOMAIN remoteProjects |-> InitialFiles(id)]
    /\ Projects = <<>>
    /\ persisted = <<>>
    /\ active = "off"
    /\ commands = 0
    /\ net = {}
    /\ prompts = {}
    /\ picker = NoPicker
    /\ timers = {}
    /\ activeEditor = NoEditor
    /\ last = Shown("init", "off", 0, 0, FALSE, 0)
    /\ clock = FirstSecond
    /\ wire = {}

\* the user's commands and answers, and the responses of the server
CreateSteps ==
    \/ \E projectName \in ProjectNames, language \in PickedLanguages :
            CmdCreate(projectName, language)
    \/ \E r \in net, outcome \in Outcomes : CreateResponse(r, outcome)

DownloadSteps ==
    \/ CmdDownload
    \/ \E r \in net, outcome \in Outcomes : DownloadListResponse(r, outcome)
    \/ \E dismissed \in BOOLEAN, selected \in SUBSET DOMAIN picker.items :
            DownloadPick(dismissed, selected)
    \/ \E r \in net, outcome \in Outcomes : ResolveListResponse(r, outcome)
    \/ \E p \in prompts, selection \in {"Skip", "Overwrite", None} :
            DispositionAnswer(p, selection)

FileSteps == \E r \in net, outcome \in Outcomes : ReadFilesResponse(r, outcome)

SaveSteps ==
    \/ \E editor \in Editors : CmdSaveFile(editor)
    \/ \E fileName \in DOMAIN disk, content \in Contents, editor \in Editors :
            SaveDocument(fileName, content, editor)
    \/ \E p \in prompts, selection \in {"Yes", "No", None} :
            ConfirmAnswer(p, selection)
    \/ \E r \in net, outcome \in Outcomes : UpdateResponse(r, outcome)

BatchSteps ==
    \/ \E editor \in Editors : CmdSaveProject(editor)
    \/ \E t \in timers : TimerFire(t)

SessionSteps ==
    \/ \E withContext \in BOOLEAN : Deactivate(withContext)
    \/ \E dir \in dirs : DeleteDir(dir)
    \/ \E r \in net, outcome \in Outcomes : RehydrateListResponse(r, outcome)

CredentialSteps ==
    \/ \E i \in DOMAIN managers, apiKey \in Keys \cup {None} :
            AnswerApiKey(i, apiKey)
    \/ \E i \in DOMAIN managers, userId \in UserIds \cup {None} :
            AnswerUserId(i, userId)
    \/ OnConfigChange
    \/ \E r \in net, outcome \in Outcomes : AuthResponse(r, outcome)

Next ==
    \/ Activate
    \/ CreateSteps
    \/ DownloadSteps
    \/ FileSteps
    \/ SaveSteps
    \/ BatchSteps
    \/ SessionSteps
    \/ CredentialSteps

Spec == Init /\ [][Next]_vars

----------------------------------------------------------------------------
(* Runs in which the user keeps to a part of the commands *)

Configured == cfgG.apiKey # None /\ cfgG.userId # None

\* the user creates and downloads projects (nothing is uploaded)
InitRegistry ==
    Init /\ Configured /\ ~cfg.uploadSkipDialog /\ ~cfg.uploadOnSave

NextRegistry == Activate \/ CreateSteps \/ DownloadSteps \/ FileSteps

SpecRegistry == InitRegistry /\ [][NextRegistry]_vars

\* the user downloads projects, edits their files and saves them
InitSave == Init /\ Configured /\ Len(remoteProjects) > 0

NextSave ==
    Activate \/ DownloadSteps \/ FileSteps \/ SaveSteps \/ BatchSteps

SpecSave == InitSave /\ [][NextSave]_vars

\* the user creates projects and closes and reopens the editor
InitSession ==
    Init /\ Configured /\ ~cfg.uploadSkipDialog /\ ~cfg.uploadOnSave

NextSession == Activate \/ CreateSteps \/ FileSteps \/ SessionSteps

SpecSession == InitSession /\ [][NextSession]_vars

\* the user answers the credential prompts
InitCredentials ==
    /\ Init
    /\ ~cfg.workspaceAsRootPath /\ ~cfg.uploadSkipDialog /\ ~cfg.uploadOnSave
    /\ remoteProjects = <<>>

NextCredentials == Activate \/ CredentialSteps

SpecCredentials == InitCredentials /\ [][NextCredentials]_vars

\* the user brings documents of the workspace in front and saves the open
\* project: a workspace with files at every depth below the directory a, a
\* file in its root and a file outside it, and a registry restored from the
\* global state
Sub == <<"s">>
Outside == << <<"x">> >>

RECURSIVE Nested(_, _)
Nested(dir, k) == IF k = 0 THEN dir ELSE Nested(JoinPath(dir, Sub), k - 1)

LookupDirs ==
    {Nested(JoinPath(WorkspaceRoot, <<"a">>), k) : k \in 0..MaxDepth}
        \cup {WorkspaceRoot, JoinPath(WorkspaceRoot, <<"b">>), Outside}

LookupDisk ==
    [q \in {JoinPath(d, MainPy) : d \in LookupDirs \ {JoinPath(WorkspaceRoot, <<"b">>)}}
        |-> "A"]

LookupNames == { <<"a">>, <<"b">> }

LookupRegistries ==
    { <<>> } \cup UNION {[1..n -> LookupNames] : n \in 1..MaxProjects}

Restored(names) ==
    [k \in DOMAIN names |->
        BindingWith(1, names[k], Py,
                    ResolveByName(RemotesTwins, names[k]).projectId,
                    ScanFiles(LookupDisk, ProjectPathOf(names[k])),
                    "rehydrate", "rehydrated")]

InitLookup ==
    /\ cfg \in [workspaceAsRootPath : BOOLEAN, uploadSkipDialog : {FALSE},
                uploadOnSave : {FALSE}]
    /\ cfgW = NoCredentials
    /\ cfgG = [apiKey |-> "k", userId |-> "u"]
    /\ cfgEvents = <<>>
    /\ managers = << NewCredentialManager(cfgW, cfgG) >>
    /\ CredManager = 1
    /\ dirs = LookupDirs
    /\ disk = LookupDisk
    /\ remoteProjects = RemotesTwins
    /\ remoteFiles = [id \in DOMAIN remoteProjects |-> InitialFiles(id)]
    /\ \E names \in LookupRegistries : Projects = Restored(names)
    /\ persisted = Snapshot(Projects)
    /\ active = "on"
    /\ commands = 0
    /\ net = {}
    /\ prompts = {}
    /\ picker = NoPicker
    /\ timers = {}
    /\ activeEditor = NoEditor
    /\ last = Shown("activate", "ready", 0, 0, FALSE, Len(Projects))
    /\ clock = FirstSecond
    /\ wire = {}

NextLookup == \E editor \in Editors : CmdSaveProject(editor)

SpecLookup == InitLookup /\ [][NextLookup]_vars

\* the user edits and saves the files of one project restored from the
\* global state, whose directory holds the two files of its remote project
UploadDir == JoinPath(WorkspaceRoot, <<"a">>)

UploadDisk == [q \in {JoinPath(UploadDir, n) : n \in {MainPy, UtilPy}} |-> "A"]

InitUpload ==
    /\ cfg \in [workspaceAsRootPath : {FALSE}, uploadSkipDialog : BOOLEAN,
                uploadOnSave : BOOLEAN]
    /\ cfgW = NoCredentials
    /\ cfgG = [apiKey |-> "k", userId |-> "u"]
    /\ cfgEvents = <<>>
    /\ managers = << NewCredentialManager(cfgW, cfgG) >>
    /\ CredManager = 1
    /\ dirs = {WorkspaceRoot, UploadDir}
    /\ disk = UploadDisk
    /\ remoteProjects = RemotesTwins
    /\ remoteFiles = [id \in DOMAIN remoteProjects |-> InitialFiles(id)]
    /\ Projects = << BindingWith(1, <<"a">>, Py,
                                 ResolveByName(RemotesTwins, <<"a">>).projectId,
                                 ScanFiles(UploadDisk, UploadDir),
                                 "rehydrate", "rehydrated") >>
    /\ persisted = Snapshot(Projects)
    /\ active = "on"
    /\ commands = 0
    /\ net = {}
    /\ prompts = {}
    /\ picker = NoPicker
    /\ timers = {}
    /\ activeEditor = NoEditor
    /\ last = Shown("activate", "ready", 0, 0, FALSE, 1)
    /\ clock = FirstSecond
    /\ wire = {}

NextUpload == SaveSteps

SpecUpload == InitUpload /\ [][NextUpload]_vars

\* the user creates projects under every name of TypedNames
InitNames == Init /\ Configured /\ ~cfg.uploadSkipDialog /\ ~cfg.uploadOnSave

NextNames ==
    \/ Activate
    \/ \E projectName \in TypedNames, language \in PickedLanguages :
            CmdCreate(projectName, language)
    \/ \E r \in net, outcome \in Outcomes : CreateResponse(r, outcome)

SpecNames == InitNames /\ [][NextNames]_vars

\* the user creates projects in a workspace where earlier sessions or other
\* programs left the directories a, a_1, ..., a_n
Occupied(n) ==
    {JoinPath(WorkspaceRoot, <<"a">>)} \cup
    {Suffixed(JoinPath(WorkspaceRoot, <<"a">>), k) : k \in 1..n}

InitDirectories ==
    /\ cfg \in [workspaceAsRootPath : BOOLEAN, uploadSkipDialog : {FALSE},
                uploadOnSave : {FALSE}]
    /\ cfgW = NoCredentials
    /\ cfgG = [apiKey |-> "k", userId |-> "u"]
    /\ cfgEvents = <<>>
    /\ managers = <<>>
    /\ CredManager = 0
    /\ \E n \in 0..(MaxTries + 1) :
            dirs \in {{WorkspaceRoot}, {WorkspaceRoot} \cup Occupied(n)}
    /\ disk = [q \in {} |-> "A"]
    /\ remoteProjects \in InitialRemotes
    /\ remoteFiles = [id \in DOMAIN remoteProjects |-> InitialFiles(id)]
    /\ Projects = <<>>
    /\ persisted = <<>>
    /\ active = "off"
    /\ commands = 0
    /\ net = {}
    /\ prompts = {}
    /\ picker = NoPicker
    /\ timers = {}
    /\ activeEditor = NoEditor
    /\ last = Shown("init", "off", 0, 0, FALSE, 0)
    /\ clock = FirstSecond
    /\ wire = {}

NextDirectories == Activate \/ CreateSteps \/ FileSteps

SpecDirectories == InitDirectories /\ [][NextDirectories]_vars

\* the user downloads projects from a server that holds any list of projects
InitResolve ==
    /\ cfg = [workspaceAsRootPath |-> FALSE, uploadSkipDialog |-> FALSE,
              uploadOnSave |-> FALSE]
    /\ cfgW = NoCredentials
    /\ cfgG = [apiKey |-> "k", userId |-> "u"]
    /\ cfgEvents = <<>>
    /\ managers = <<>>
    /\ CredManager = 0
    /\ dirs = {WorkspaceRoot}
    /\ disk = [q \in {} |-> "A"]
    /\ remoteProjects \in RemoteLists
    /\ remoteFiles = [id \in DOMAIN remoteProjects |-> InitialFiles(id)]
    /\ Projects = <<>>
    /\ persisted = <<>>
    /\ active = "off"
    /\ commands = 0
    /\ net = {}
    /\ prompts = {}
    /\ picker = NoPicker
    /\ timers = {}
    /\ activeEditor = NoEditor
    /\ last = Shown("init", "off", 0, 0, FALSE, 0)
    /\ clock = FirstSecond
    /\ wire = {}

NextResolve == Activate \/ DownloadSteps \/ FileSteps

SpecResolve == InitResolve /\ [][NextResolve]_vars

\* the user downloads projects while another client deletes projects
InitVanish == InitRegistry /\ ~cfg.workspaceAsRootPath

NextVanish ==
    \/ Activate
    \/ DownloadSteps
    \/ FileSteps
    \/ \E id \in 1..Len(remoteFiles) : OtherClientDeletes(id)

SpecVanish == InitVanish /\ [][NextVanish]_vars

\* the user downloads projects into a workspace where the directory a may
\* exist and may hold files of any content
LocalDir == JoinPath(WorkspaceRoot, <<"a">>)

LocalDisks ==
    UNION {[{JoinPath(LocalDir, n) : n \in names} -> Contents] :
           names \in SUBSET {MainPy, UtilPy}}

InitDisposition ==
    /\ cfg = [workspaceAsRootPath |-> FALSE, uploadSkipDialog |-> FALSE,
              uploadOnSave |-> FALSE]
    /\ cfgW = NoCredentials
    /\ cfgG = [apiKey |-> "k", userId |-> "u"]
    /\ cfgEvents = <<>>
    /\ managers = <<>>
    /\ CredManager = 0
    /\ disk \in LocalDisks
    /\ dirs \in {{WorkspaceRoot, LocalDir}} \cup
                (IF DOMAIN disk = {} THEN {{WorkspaceRoot}} ELSE {})
    /\ remoteProjects \in {RemotesMixed, RemotesTwins}
    /\ remoteFiles = [id \in DOMAIN remoteProjects |-> InitialFiles(id)]
    /\ Projects = <<>>
    /\ persisted = <<>>
    /\ active = "off"
    /\ commands = 0
    /\ net = {}
    /\ prompts = {}
    /\ picker = NoPicker
    /\ timers = {}
    /\ activeEditor = NoEditor
    /\ last = Shown("init", "off", 0, 0, FALSE, 0)
    /\ clock = FirstSecond
    /\ wire = {}

NextDisposition == Activate \/ DownloadSteps \/ FileSteps

SpecDisposition == InitDisposition /\ [][NextDisposition]_vars

\* the user dismisses the credential prompts (the configuration is never
\* written, so no configuration event arises), creates projects and closes
\* and reopens the editor
InitRestore ==
    /\ Init
    /\ ~cfg.workspaceAsRootPath /\ ~cfg.uploadSkipDialog /\ ~cfg.uploadOnSave
    /\ remoteProjects = <<>>

NextRestore ==
    \/ Activate
    \/ \E i \in DOMAIN managers : AnswerApiKey(i, None)
    \/ \E i \in DOMAIN managers : AnswerUserId(i, None)
    \/ \E r \in net, outcome \in Outcomes : AuthResponse(r, outcome)
    \/ CmdCreate(<<"a">>, Py)
    \/ \E r \in net, outcome \in Outcomes : CreateResponse(r, outcome)
    \/ SessionSteps

SpecRestore == InitRestore /\ [][NextRestore]_vars

\* the user creates projects, closes and reopens the editor and changes the
\* workspaceAsRootPath setting in between
InitSettings == InitSession

NextSettings ==
    \/ NextSession
    \/ \E workspaceAsRootPath \in BOOLEAN : EditSettings(workspaceAsRootPath)

SpecSettings == InitSettings /\ [][NextSettings]_vars

\* the user creates projects while the seconds pass
InitHeaders == InitSession

NextHeaders == Activate \/ Tick \/ CreateSteps \/ FileSteps

SpecHeaders == InitHeaders /\ [][NextHeaders]_vars

\* the user downloads projects and a local write may fail during a download
InitPartial == InitDisposition

NextPartial ==
    \/ NextDisposition
    \/ \E r \in net, k \in 1..Len(FileOrder) : ReadFilesPartial(r, k)

SpecPartial == InitPartial /\ [][NextPartial]_vars

\* the user creates a project, closes and reopens the editor and saves the
\* files of the restored project
InitResave == InitSession

NextResave ==
    \/ Activate
    \/ CmdCreate(<<"a">>, Py)
    \/ \E r \in net, outcome \in Outcomes : CreateResponse(r, outcome)
    \/ FileSteps
    \/ SessionSteps
    \/ SaveSteps

SpecResave == InitResave /\ [][NextResave]_vars

\* the user answers or dismisses the credential prompts, creates a project
\* and closes and reopens the editor
InitStale == InitCredentials /\ cfgG = NoCredentials

\* the client m holds both credentials
Credentialed(m) ==
    m # 0 /\ managers[m].api.apiKey # None /\ managers[m].api.userId # None

\* the server accepts only the requests of a client that holds both credentials
NextStale ==
    \/ Activate
    \/ \E i \in DOMAIN managers, apiKey \in Keys \cup {None} :
            AnswerApiKey(i, apiKey)
    \/ \E i \in DOMAIN managers, userId \in UserIds : AnswerUserId(i, userId)
    \/ OnConfigChange
    \/ \E r \in net : AuthResponse(r, "ok")
    \/ CmdCreate(<<"a">>, Py)
    \/ \E r \in net :
            /\ r.kind = "create"
            /\ Credentialed(Projects[r.b].api)
            /\ CreateResponse(r, "ok")
    \/ Deactivate(TRUE)

SpecStale == InitStale /\ [][NextStale]_vars

----------------------------------------------------------------------------
(* Properties *)

Files(b) == DOMAIN Projects[b].files

RemoteCalls ==
    {"createProject", "listProjects", "readProjectFiles",
     "updateProjectFileContent"}

Prompting(m) == m.pc \in {"promptApiKey", "promptUserId"}

\* C1: no two bindings of the registry have the same projectPath.
C1_UniquePath ==
    \A b, c \in DOMAIN Projects :
        b # c => Projects[b].projectPath # Projects[c].projectPath

\* C2: a file whose synced flag is true holds, in memory, the content the
\* remote service last confirmed for it.
C2_SyncedIsConfirmed ==
    \A b \in DOMAIN Projects : \A f \in Files(b) :
        Projects[b].files[f].synced
            => Projects[b].files[f].content = Projects[b].files[f].confirmed

\* C3: a file's synced flag is true only if a remote write of that file was
\* acknowledged with success earlier in the run.
C3_SyncedOnlyAfterAck ==
    \A b \in DOMAIN Projects : \A f \in Files(b) :
        Projects[b].files[f].synced => Projects[b].files[f].acked

\* C4: in saveProject the remote write of a file is not in flight while the
\* pacing delay that follows the previous file's saveFile call is still
\* running.
C4_UploadsPaced ==
    \A r \in net :
        (r.kind = "update" /\ r.batch /\ r.f > 1)
            => [b |-> r.b, f |-> r.f - 1] \notin timers

\* C5: a binding of the Create scenario is in the registry only once the
\* remote create call has succeeded and its project id has been captured.
C5_RegisteredAfterCreate ==
    \A b \in DOMAIN Projects :
        Projects[b].origin = "create" => Projects[b].projectId # 0

\* C6: whenever a remote call of the reconciler ends in a failure (transport
\* failure or an envelope with success = false), an error message is shown
\* and no exception or rejection is left unhandled.
C6_FailuresShownAndCaught ==
    (last.op \in RemoteCalls /\ last.outcome \in {"fail", "transport"})
        => (last.errs >= 1 /\ ~last.unhandled)

\* C7: no LeanApi client exists that was constructed with an undefined API
\* key or an undefined user id.
C7_ClientHasCredentials ==
    \A i \in DOMAIN managers :
        managers[i].api.defined
            => (managers[i].api.apiKey # None /\ managers[i].api.userId # None)

\* C8: at most one credential prompt chain is in flight at any time.
C8_SingleFlight ==
    Cardinality({i \in DOMAIN managers : Prompting(managers[i])}) <= 1

\* C9: once the listing requested for a re-hydrated binding without an id
\* has been answered with success and a remote project has the binding's
\* name, the binding's id is the id of the most recently modified project
\* of that name.
C9_IdResolvedByName ==
    \A b \in DOMAIN Projects :
        LET project == ResolveByName(remoteProjects, Projects[b].projectName)
        IN  (Projects[b].phase = "listed" /\ project.projectId # 0)
                => Projects[b].projectId = project.projectId

\* C10 as stated: the lookup returns a binding whose projectPath is a prefix
\* of the active file's path whenever such a binding is registered (at any
\* depth), and none otherwise.
C10_PrefixLookup ==
    (last.op = "saveProject" /\ activeEditor.kind = "file")
        => IF \E c \in DOMAIN Projects :
                    IsPrefix(Projects[c].projectPath,
                             ParentDir(activeEditor.fileName))
           THEN /\ last.result \in DOMAIN Projects
                /\ IsPrefix(Projects[last.result].projectPath,
                            ParentDir(activeEditor.fileName))
           ELSE last.result = 0

\* C10, amended: the lookup returns the first registered binding whose
\* projectPath is exactly the directory that contains the active file, and
\* none when no binding has that path: none for a file nested deeper below
\* a binding's directory and none for a path outside every registered
\* directory.
C10_ExactDirectoryLookup ==
    last.op = "saveProject"
        => LET dir == ParentDir(activeEditor.fileName)
               owners == {c \in DOMAIN Projects :
                            /\ activeEditor.kind = "file"
                            /\ Projects[c].projectPath = dir}
           IN  /\ owners = {} => last.result = 0
               /\ owners # {} =>
                    /\ last.result \in owners
                    /\ \A c \in owners : last.result <= c
               /\ (\A c \in DOMAIN Projects :
                        ~IsPrefix(Projects[c].projectPath,
                                  activeEditor.fileName))
                    => last.result = 0

\* the lookup has answered none for a file two levels below the directory
\* of a registered binding
C10_NestedFileFindsNone ==
    /\ last.op = "saveProject"
    /\ activeEditor.kind = "file"
    /\ last.result = 0
    /\ \E c \in DOMAIN Projects :
            /\ IsPrefix(Projects[c].projectPath, activeEditor.fileName)
            /\ Len(activeEditor.fileName) = Len(Projects[c].projectPath) + 3

SyncedFlags(ps) ==
    [b \in DOMAIN ps |-> [f \in DOMAIN ps[b].files |-> ps[b].files[f].synced]]

SaveOps == {"saveFile", "onFileSave", "saveProject"}

NewWrites == {r \in net' \ net : r.kind = "update"}

NewConfirms == {p \in prompts' \ prompts : p.kind = "confirm"}

\* C11: the step that handles a non-success envelope of a remote write shows
\* the server's errors and leaves every synced flag as it was.
C11_FailedWriteKeepsFlag ==
    [][(last'.op = "updateProjectFileContent" /\ last'.outcome = "fail")
          => (/\ last'.errs >= 1
              /\ SyncedFlags(Projects') = SyncedFlags(Projects))]_vars

\* a write of a file whose flag was already true has been refused, and the
\* flag is still true
C11_RefusedAfterAcknowledged ==
    /\ last.op = "updateProjectFileContent"
    /\ last.outcome = "fail"
    /\ \E f \in Files(last.result) :
            /\ Projects[last.result].files[f].synced
            /\ Projects[last.result].files[f].acked

\* C12: with uploadSkipDialog off a write is issued only by the step in which
\* the user answers Yes to the confirmation prompt of that file, and No or a
\* dismissed prompt issues nothing and changes no file object; with the
\* option on no prompt is ever opened and the save step itself issues the
\* write; every save step reloads the content from disk first, and every
\* write carries the content of the file object.
C12_ConfirmedWriteOfReloadedContent ==
    [][/\ \A r \in NewWrites :
            /\ r.content = Projects'[r.b].files[r.f].content
            /\ IF cfg.uploadSkipDialog
               THEN last'.op \in SaveOps
               ELSE /\ last'.op = "confirm" /\ last'.outcome = "Yes"
                    /\ \E p \in prompts \ prompts' : p.b = r.b /\ p.f = r.f
       /\ (last'.op = "confirm" /\ last'.outcome # "Yes")
            => (net' = net /\ Projects' = Projects)
       /\ cfg.uploadSkipDialog => prompts' = {}
       /\ (last'.op \in SaveOps)
            => \A x \in NewWrites \cup NewConfirms :
                    Projects'[x.b].files[x.f].content
                        = disk'[Projects'[x.b].files[x.f].filePath]]_vars

\* the user has answered Yes and the write of the edited content, reloaded
\* when the save began, is in flight
C12_YesIssuesReloadedContent ==
    /\ ~cfg.uploadSkipDialog
    /\ last.op = "confirm"
    /\ last.outcome = "Yes"
    /\ \E r \in net :
            /\ r.kind = "update"
            /\ r.b = last.result
            /\ r.content = "B"
            /\ Projects[r.b].files[r.f].content = "B"

OnlyDisallowed(projectName) ==
    \A i \in DOMAIN projectName : projectName[i] \notin AllowedChars

\* C13: the Create command with a name made only of characters outside
\* [A-Za-z0-9_ .-] shows an error and changes nothing: no directory, no
\* file, no request, no binding, no persisted record.
C13_BadNameChangesNothing ==
    [][\A projectName \in TypedNames, language \in PickedLanguages :
            (OnlyDisallowed(projectName) /\ CmdCreate(projectName, language))
                => (/\ last'.errs >= 1
                    /\ dirs' = dirs /\ disk' = disk
                    /\ net' = net
                    /\ Projects' = Projects /\ persisted' = persisted)]_vars

\* a Create command was refused for its name (the client is defined) when a
\* project was already registered
C13_BadNameRefused ==
    /\ last.op = "create"
    /\ last.outcome = "throw"
    /\ last.errs = 1
    /\ CurrentApi # 0
    /\ Len(Projects) > 0

\* C14: with workspaceAsRootPath off, the directory of a binding registered
\* by the Create or the Download command did not exist before the command;
\* an existing directory is never taken as the new project's path.
C14_ExistingDirectoryNotReused ==
    [][(/\ last'.op \in {"create", "pick"}
        /\ last'.outcome = "pushed"
        /\ ~cfg.workspaceAsRootPath)
            => Projects'[last'.result].projectPath \notin dirs]_vars

AllTaken(projectPath) ==
    /\ projectPath \in dirs
    /\ \A k \in 1..MaxTries : Suffixed(projectPath, k) \in dirs

\* C15: when <name> and <name>_1 .. <name>_20 all exist, the Create command
\* fails with an error, creates no directory, issues no remote call and
\* registers no binding.
C15_ExhaustedCreateFails ==
    [][\A projectName \in ProjectNames, language \in PickedLanguages :
            (/\ ~cfg.workspaceAsRootPath
             /\ normalizeProjectName(projectName) # <<>>
             /\ AllTaken(ProjectPathOf(projectName))
             /\ CmdCreate(projectName, language))
                => (/\ last'.errs >= 1
                    /\ dirs' = dirs
                    /\ net' = net
                    /\ Projects' = Projects)]_vars

\* the resolve callback of binding b has just stored a project id
Resolved(b) ==
    /\ last.op = "listProjects"
    /\ last.outcome \in {"ok", "prompt"}
    /\ last.result = b
    /\ b \in DOMAIN Projects
    /\ Projects[b].origin = "download"

\* position i of the list holds the latest project named projectName, and
\* the first of the latest
LatestNamed(projects, projectName, i) ==
    /\ projects[i].name = projectName
    /\ \A k \in DOMAIN projects :
            projects[k].name = projectName
                => \/ projects[k].modified < projects[i].modified
                   \/ projects[k].modified = projects[i].modified /\ k >= i

\* C16: the download branch resolves the binding's name to the project of
\* the list that has exactly this name and the latest modified time among
\* the projects of this name, the first in list order when several are the
\* latest.
C16_ResolvesLatestNamed ==
    \A b \in DOMAIN Projects :
        Resolved(b) =>
            \E i \in DOMAIN remoteProjects :
                /\ remoteProjects[i].projectId = Projects[b].projectId
                /\ LatestNamed(remoteProjects, Projects[b].projectName, i)

\* a name was resolved while two projects of that name shared the latest
\* time and a project of another name was in the list
C16_ResolvedAmongTwins ==
    \E b \in DOMAIN Projects :
        /\ Resolved(b)
        /\ \E i, j, k \in DOMAIN remoteProjects :
                /\ i < j
                /\ remoteProjects[i].projectId = Projects[b].projectId
                /\ remoteProjects[j].name = Projects[b].projectName
                /\ remoteProjects[j].modified = remoteProjects[i].modified
                /\ remoteProjects[k].name # Projects[b].projectName

\* C17: when the listing holds no project of the binding's name, the resolve
\* callback reports an error, issues no file download, writes no file, and
\* no binding of that name stays in Projects.
C17_NotFoundRemovesBinding ==
    [][(last'.op = "listProjects" /\ last'.outcome = "notFound")
            => (/\ last'.errs >= 1
                /\ \A r \in net' \ net : r.kind # "read"
                /\ disk' = disk
                /\ \A b \in DOMAIN Projects' :
                        Projects'[b].projectName
                            # Projects[last'.result].projectName)]_vars

\* file downloads of download bindings issued by the step
NewDownloads ==
    {r \in net' \ net : r.kind = "read" /\ Projects'[r.b].origin = "download"}

\* C18: in the download branch, a directory with entries leads to the
\* disposition prompt and to no file download until it is answered; Skip or
\* a dismissed prompt starts a download that does not overwrite, Overwrite
\* one that does; an empty directory leads to a download that does not
\* overwrite, with no prompt.
C18_DispositionBeforeDownload ==
    [][/\ \A p \in prompts' :
            p.kind = "disposition"
                => \A r \in net' : ~(r.kind = "read" /\ r.b = p.b)
       /\ \A r \in NewDownloads :
            \/ /\ last'.op = "disposition"
               /\ \E p \in prompts \ prompts' : p.b = r.b
               /\ r.ow = (last'.outcome = "Overwrite")
            \/ /\ last'.op = "listProjects"
               /\ ~DirHasEntries(dirs, disk, Projects[r.b].projectPath)
               /\ ~r.ow
               /\ prompts' = prompts
       /\ \A b \in DOMAIN Projects :
            (/\ Resolved(b)'
             /\ DirHasEntries(dirs, disk, Projects[b].projectPath))
                => (/\ NewDownloads = {}
                    /\ \E p \in prompts' \ prompts :
                            p.kind = "disposition" /\ p.b = b)
       /\ last'.op = "disposition" => NewDownloads # {}]_vars

\* the prompt of a directory holding files was dismissed and the download
\* that was started does not overwrite
C18_DismissedPromptSkips ==
    /\ last.op = "disposition"
    /\ last.outcome = None
    /\ Len(FilesIn(disk, Projects[last.result].projectPath)) > 0
    /\ \E r \in net : r.kind = "read" /\ r.b = last.result /\ ~r.ow

\* the download request the step has answered with success
Answered ==
    {r \in net \ net' : r.kind = "read" /\ last'.op = "readProjectFiles"
                        /\ last'.outcome = "ok"}

\* C19: a download that does not overwrite leaves every file that was on the
\* disk before it with its content, whatever the server supplies under the
\* same name; what it writes are the server's files that were absent.
C19_NoClobber ==
    [][\A r \in Answered :
            ~r.ow =>
                /\ \A q \in DOMAIN disk :
                        q \in DOMAIN disk' /\ disk'[q] = disk[q]
                /\ \A q \in DOMAIN disk' \ DOMAIN disk :
                        \E k \in DOMAIN remoteFiles[r.pid] :
                            /\ q = JoinPath(Projects[r.b].projectPath,
                                            remoteFiles[r.pid][k].name)
                            /\ disk'[q] = remoteFiles[r.pid][k].content
                /\ \A k \in DOMAIN remoteFiles[r.pid] :
                        JoinPath(Projects[r.b].projectPath,
                                 remoteFiles[r.pid][k].name) \in DOMAIN disk']_vars

\* a download that does not overwrite has ended, its directory holds a file
\* whose content is not the server's and another that the download wrote
C19_LocalFileKept ==
    /\ last.op = "readProjectFiles"
    /\ last.outcome = "ok"
    /\ \E f, g \in DOMAIN Projects[last.result].files :
            LET file == Projects[last.result].files[f]
                other == Projects[last.result].files[g]
            IN  /\ disk[file.filePath] # file.content
                /\ other.filePath # file.filePath
                /\ disk[other.filePath] = other.content

\* file downloads of created bindings issued by the step
NewCreateDownloads ==
    {r \in net' \ net : r.kind = "read" /\ Projects'[r.b].origin = "create"}

\* C20: in the chain of a created project, readProjectFiles is issued by the
\* callback that received the successful createProject response, for the id
\* taken from that response; while the create request is unanswered and
\* after it failed no file download of the binding is in flight.
C20_DownloadAfterCreate ==
    [][/\ \A r \in NewCreateDownloads :
            /\ last'.op = "createProject"
            /\ last'.outcome = "ok"
            /\ \E c \in net \ net' : c.kind = "create" /\ c.b = r.b
            /\ Projects[r.b].projectId = 0
            /\ r.pid # 0
            /\ r.pid = Projects'[r.b].projectId
            /\ remoteProjects'[Len(remoteProjects')].projectId = r.pid
       /\ (last'.op = "createProject" /\ last'.outcome # "ok")
            => (/\ NewCreateDownloads = {}
                /\ Projects'[last'.result].projectId = 0)
       /\ \A b \in DOMAIN Projects' :
            (/\ Projects'[b].origin = "create"
             /\ Projects'[b].phase \in {"creating", "createFailed"})
                => \A r \in net' : ~(r.kind = "read" /\ r.b = b)]_vars

\* one created project's download was just issued for its new id while
\* another's create request had failed
C20_DownloadIssuedForNewId ==
    /\ last.op = "createProject"
    /\ last.outcome = "ok"
    /\ \E r \in net :
            /\ r.kind = "read"
            /\ r.b = last.result
            /\ r.pid = Projects[r.b].projectId
            /\ r.pid # 0
    /\ \E c \in DOMAIN Projects : Projects[c].phase = "createFailed"

\* the persisted records whose projectPath is a directory of ds
Surviving(recs, ds) == SelectSeq(recs, LAMBDA rec : rec.projectPath \in ds)

\* C21: after activation Projects holds one binding for each persisted
\* record whose projectPath existed when the editor started, in the order of
\* the records, and none for a record whose directory was deleted.
C21_RestoredIffDirectoryExists ==
    [][last'.op = "activate"
            => LET kept == Surviving(persisted, dirs)
               IN  /\ Len(Projects') = Len(kept)
                   /\ \A b \in DOMAIN Projects' :
                        /\ Projects'[b].projectName = kept[b].projectName
                        /\ Projects'[b].origin = "rehydrate"]_vars

\* C22: every binding rebuilt at activation has the projectName, the
\* projectLanguage, the projectId and the projectPath of the persisted record
\* it was rebuilt from, and activation makes no directory.
C22_RestoreRoundTrip ==
    [][last'.op = "activate"
            => LET kept == Surviving(persisted, dirs)
               IN  /\ dirs' = dirs
                   /\ \A b \in DOMAIN Projects' :
                        /\ b <= Len(kept)
                        /\ Projects'[b].projectName = kept[b].projectName
                        /\ Projects'[b].projectLanguage
                                = kept[b].projectLanguage
                        /\ Projects'[b].projectId = kept[b].projectId
                        /\ Projects'[b].projectPath = kept[b].projectPath]_vars

\* C23: the Timestamp header of every request is the timestamp that went
\* into the hash of its Authorization header, and the pair of a request is
\* made of the second the request is sent in, not of an earlier one.
C23_TimestampIsHashInput ==
    [][\A h \in wire' :
            /\ h.Timestamp = h.Authorization.hash.timestamp
            /\ h \notin wire => h.Timestamp = clock]_vars

\* requests were sent in two different seconds
C23_SentInTwoSeconds ==
    \E g, h \in wire :
        /\ g.Timestamp < h.Timestamp
        /\ h.Timestamp = clock
        /\ net # {}

\* the files whose save the step has confirmed: the file of the prompt that
\* was answered Yes, or with uploadSkipDialog the file the save was run on
ConfirmedSaves ==
    {x \in [b : DOMAIN Projects, f : 1..Len(FileOrder), batch : BOOLEAN] :
        /\ x.f \in DOMAIN Projects[x.b].files
        /\ \/ /\ last'.op = "confirm"
              /\ last'.outcome = "Yes"
              /\ Prompt("confirm", x.b, x.f, x.batch) \in prompts \ prompts'
           \/ /\ cfg.uploadSkipDialog
              /\ last'.op \in {"saveFile", "onFileSave"}
              /\ last'.outcome = "saving"
              /\ ~x.batch
              /\ x.b = last'.result
              /\ x.f = getOpenFile(Projects, x.b, activeEditor')}

\* C24: every confirmed save of a file issues one write of the file, also
\* when its content is the content of its last acknowledged write and its
\* synced flag is set; a success acknowledgment leaves the flag set.
C24_SaveAlwaysWrites ==
    [][/\ \A x \in ConfirmedSaves :
            LET write == UpdateRequest(Projects', x.b, x.f, x.batch)
            IN  /\ write \in net'
                /\ net' \ net \subseteq {write}
                /\ write \notin net => net' \ net = {write}
       /\ (last'.op = "updateProjectFileContent" /\ last'.outcome = "ok")
            => \A r \in net \ net' : Projects'[r.b].files[r.f].synced]_vars

\* a write was just issued for a file whose flag is set and whose content
\* is the content of its last acknowledged write
C24_UnchangedFileWrittenAgain ==
    /\ last.op \in {"confirm", "saveFile", "onFileSave"}
    /\ last.outcome \in {"Yes", "saving"}
    /\ \E r \in net :
            /\ r.kind = "update"
            /\ r.b = last.result
            /\ LET file == Projects[r.b].files[r.f]
               IN  /\ file.synced
                   /\ file.acked
                   /\ file.confirmed = r.content
                   /\ disk[file.filePath] = r.content

\* the download whose local write has just failed
Interrupted ==
    {r \in net \ net' : /\ r.kind = "read"
                        /\ last'.op = "readProjectFiles"
                        /\ last'.outcome = "writeFailed"}

\* C25: when a local write fails during a download, the error is shown, no
\* file is removed from the disk, and the binding's files are the files of
\* the response before the failing one, in order: each is a file of the
\* remote project, lies in the binding's directory and is on the disk; the
\* failing file and the files after it have no entry and were not written.
C25_PartialDownloadKept ==
    [][\A r \in Interrupted :
            LET remote == remoteFiles[r.pid]
                path == Projects[r.b].projectPath
                files == Projects'[r.b].files
                k == Len(files)
            IN  /\ last'.errs >= 1
                /\ Projects[r.b].files = <<>>
                /\ k < Len(remote)
                /\ \A i \in 1..k :
                        /\ files[i].filePath = JoinPath(path, remote[i].name)
                        /\ files[i].content = remote[i].content
                        /\ ParentDir(files[i].filePath) = path
                        /\ files[i].filePath \in DOMAIN disk'
                        /\ (r.ow \/ files[i].filePath \notin DOMAIN disk)
                                => disk'[files[i].filePath] = remote[i].content
                /\ \A q \in DOMAIN disk : q \in DOMAIN disk'
                /\ \A q \in DOMAIN disk' :
                        (\A i \in 1..k : files[i].filePath # q)
                            => (q \in DOMAIN disk /\ disk'[q] = disk[q])]_vars

\* a download of a project of two files failed at its second file: the
\* first is on the disk and in the binding, the second is in neither
C25_FailedAtSecondFile ==
    /\ last.op = "readProjectFiles"
    /\ last.outcome = "writeFailed"
    /\ Len(Projects[last.result].files) = 1
    /\ Projects[last.result].files[1].filePath \in DOMAIN disk
    /\ JoinPath(Projects[last.result].projectPath, UtilPy) \notin DOMAIN disk
    /\ Len(remoteFiles[Projects[last.result].projectId]) = 2

\* C26: no write of a file is in flight for a binding that has no remote
\* project id; every files/update request carries the id of a project.
C26_NoWriteWithoutId ==
    \A r \in net : r.kind = "update" => r.pid # 0

\* C27: the api field of every binding of Projects is a LeanApi object.
C27_BindingHasClient ==
    \A b \in DOMAIN Projects : Projects[b].api # 0

\* C28: when the user accepts the quick pick of the Download command with a
\* set of projects selected and the first of them becomes a binding, Projects
\* grows by one binding for every selected project.
C28_EverySelectedBound ==
    [][\A selected \in SUBSET DOMAIN picker.items :
          (/\ selected # {}
           /\ DownloadPick(FALSE, selected)
           /\ last'.outcome = "pushed")
          => Len(Projects') = Len(Projects) + Cardinality(selected)]_vars

\* C29: the project of the list that a download binding was resolved to has
\* the language recorded in the binding.
C29_ResolvedLanguageMatches ==
    \A b \in DOMAIN Projects :
        Resolved(b) =>
            \A i \in DOMAIN remoteProjects :
                remoteProjects[i].projectId = Projects[b].projectId
                    => remoteProjects[i].language = Projects[b].projectLanguage

\* C30: on a file-save event with uploadOnSave on, every write request and
\* every confirmation prompt the handler raises is for the file of the saved
\* document, whichever editor is active; with uploadOnSave off the handler
\* raises neither.
C30_SavedDocumentUploaded ==
    [][\A fileName \in DOMAIN disk, content \in Contents, editor \in Editors :
          SaveDocument(fileName, content, editor)
          => IF cfg.uploadOnSave
             THEN /\ \A r \in net' \ net :
                        Projects'[r.b].files[r.f].filePath = fileName
                  /\ \A p \in prompts' \ prompts :
                        Projects'[p.b].files[p.f].filePath = fileName
             ELSE net' = net /\ prompts' = prompts]_vars

====
